---------------------------- MODULE Spec2Model ----------------------------
(***************************************************************************)
(* MarketPulse: the change detector (filter_significant_changes), the      *)
(* report aggregator (generate_reports), the message formatter             *)
(* (format_telegram_messages), the reporting loop (run_report_generation)  *)
(* and the pruning of old observations (delete_old_records and its loop).  *)
(*                                                                         *)
(* Time is counted in minutes.  Prices are integers; a change_percentage   *)
(* is kept in fixed point, in units of 1/Scale percent, truncated toward   *)
(* zero, which decides the comparison with the threshold exactly as the    *)
(* real quotient does.  A row of the market_pairs table carries the        *)
(* columns the reporter reads (category is never read).                    *)
(***************************************************************************)
EXTENDS Integers, Sequences, FiniteSets, TLC

VARIABLES
    now,                     \* the wall clock, datetime.now(timezone.utc)
    db,                      \* the market_pairs table: a set of rows
    call,                    \* a filter_significant_changes call on its own
    rpc,                     \* position of the reporting loop
    threshold,               \* run_report_generation's threshold
    current_time,            \* generate_reports: current_time
    exchanges,               \* generate_reports: exchanges not yet iterated
    exchange,                \* generate_reports: the loop variable
    windows,                 \* generate_reports: interval names still to do
    exchange_reports,        \* generate_reports: dict interval -> report
    reports,                 \* generate_reports: dict exchange -> dict
    processed_market_pairs,  \* generate_reports: the shared set
    slices,                  \* what generate_reports logs of each slice
    messages,                \* format_telegram_messages' result
    sent,                    \* messages handed to send_telegram_message
    exception,               \* what a reporting cycle raised, if anything
    ppc,                     \* position of the pruning loop
    deletion,                \* the latest delete_old_records call
    fpc                      \* position of the ingestion loop

vars == <<now, db, call, rpc, threshold, current_time, exchanges, exchange,
          windows, exchange_reports, reports, processed_market_pairs, slices,
          messages, sent, exception, ppc, deletion, fpc>>

---------------------------------------------------------------------------
(* Bounds and the values inputs are drawn from.                            *)

\* longest market_data sequence handed to the detector on its own
MaxLen == 4
\* most rows the table holds
MaxRows == 4

PairNames == {"BTC/USDT", "ETH/USDT"}
ExchangeNames == {"binance", "bybit"}
\* 0 is a price the API can deliver; 90, 100, 110 give changes of exactly
\* 10 %, just under 10 % (110 -> 100) and over 10 %, in both directions
Prices == {0, 90, 100, 110}

\* String order of the pair names (ORDER BY market_pair)
PairRank(p) == IF p = "BTC/USDT" THEN 1 ELSE 2

NoValue == "none"
NoException == [type |-> "none", raised_by |-> "none"]

---------------------------------------------------------------------------
(* database.py: a row of market_pairs                                      *)

MarketUrl(e, p) == <<"https://coinmarketcap.com", e, p>>

MarketPairData(p, e, price, ts) ==
    [market_pair |-> p, exchange_name |-> e, market_url |-> MarketUrl(e, p),
     price |-> price, timestamp |-> ts]

---------------------------------------------------------------------------
(* market_reporter.py: filter_significant_changes                          *)

\* resolution of a change_percentage: thousandths of a percent
Scale == 1000

Abs(x) == IF x < 0 THEN -x ELSE x

\* integer quotient truncated toward zero, d > 0
TruncDiv(n, d) == IF n < 0 THEN -((-n) \div d) ELSE n \div d

\* ((data.price - initial_price) / initial_price) * 100, for a price
\* initial_price > 0 (a zero initial_price raises, see FilterLoop)
PriceChange(price, initial_price) ==
    TruncDiv((price - initial_price) * 100 * Scale, initial_price)

MutCrossesStrict(price_change, thr) == Abs(price_change) > thr * Scale

\* abs(price_change) >= threshold
Crosses(price_change, thr) == Abs(price_change) >= thr * Scale

MutNeverProcessed(market_pair, processed) == FALSE

\* if market_pair in processed_market_pairs: continue
AlreadyProcessed(market_pair, processed) == market_pair \in processed

MutForgetProcessed(processed, market_pair) == processed

\* processed_market_pairs.add(market_pair)
AddProcessed(processed, market_pair) == processed \cup {market_pair}

\* the dict appended to significant_changes
SignificantChange(data, price_change) ==
    [market_pair |-> <<data.market_pair, data.exchange_name>>,
     price |-> data.price,
     change_percentage |-> price_change,
     timestamp |-> data.timestamp,
     market_url |-> data.market_url]

\* The for loop over market_data from index i on.  st holds the locals:
\* significant_changes, market_pairs (a dict, here a function on its keys),
\* the caller's processed set and whether ZeroDivisionError was raised.
RECURSIVE FilterLoop(_, _, _, _)
FilterLoop(market_data, thr, i, st) ==
    IF i > Len(market_data) \/ st.raised THEN st
    ELSE
      LET data == market_data[i]
          market_pair == data.market_pair
      IN
      IF AlreadyProcessed(market_pair, st.processed)
      THEN FilterLoop(market_data, thr, i + 1, st)
      ELSE IF market_pair \notin DOMAIN st.market_pairs
      THEN FilterLoop(market_data, thr, i + 1,
               [st EXCEPT !.market_pairs = (market_pair :> data) @@ @])
      ELSE
        LET initial_price == st.market_pairs[market_pair].price IN
        IF initial_price = 0
        THEN [st EXCEPT !.raised = TRUE]
        ELSE
          LET price_change == PriceChange(data.price, initial_price) IN
          IF Crosses(price_change, thr)
          THEN FilterLoop(market_data, thr, i + 1,
                 [st EXCEPT
                    !.significant_changes =
                        Append(@, SignificantChange(data, price_change)),
                    !.processed = AddProcessed(@, market_pair),
                    !.market_pairs =
                        [k \in (DOMAIN @) \ {market_pair} |-> @[k]]])
          ELSE FilterLoop(market_data, thr, i + 1, st)

\* list.sort(key=...): stable insertion of x into an ascending sequence
RECURSIVE InsertByChange(_, _)
InsertByChange(s, x) ==
    IF s = <<>> THEN <<x>>
    ELSE IF s[Len(s)].change_percentage <= x.change_percentage
    THEN Append(s, x)
    ELSE Append(InsertByChange(SubSeq(s, 1, Len(s) - 1), x), s[Len(s)])

RECURSIVE SortPrefix(_, _)
SortPrefix(s, n) ==
    IF n = 0 THEN <<>> ELSE InsertByChange(SortPrefix(s, n - 1), s[n])

\* sorted(changes, key=lambda x: x['change_percentage']), a stable sort
SortByChange(s) == SortPrefix(s, Len(s))

\* The call: the returned list, the processed set as the call leaves it,
\* and whether the call raised instead of returning.
filter_significant_changes(market_data, thr, processed) ==
    LET st == FilterLoop(market_data, thr, 1,
                  [significant_changes |-> <<>>,
                   market_pairs |-> [k \in {} |-> NoValue],
                   processed |-> processed,
                   raised |-> FALSE])
    IN [result |-> IF st.raised THEN <<>>
                   ELSE SortByChange(st.significant_changes),
        processed |-> st.processed,
        raised |-> st.raised]

---------------------------------------------------------------------------
(* market_reporter.py: MarketPairRepository and generate_reports           *)

\* threshold=10.0 of the module's entry point
DefaultThreshold == 10

\* ORDER BY market_pair, timestamp
KeyLess(a, b) ==
    \/ PairRank(a.market_pair) < PairRank(b.market_pair)
    \/ /\ a.market_pair = b.market_pair
       /\ a.timestamp < b.timestamp

\* Every listing of the rows S in ORDER BY order: rows that tie on
\* (market_pair, timestamp) come in an order the database chooses.
RECURSIVE OrderedListings(_)
OrderedListings(S) ==
    IF S = {} THEN {<<>>}
    ELSE UNION {{<<r>> \o s : s \in OrderedListings(S \ {r})} :
                r \in {m \in S : \A q \in S : ~KeyLess(q, m)}}

\* and_(timestamp >= start_time, timestamp <= end_time)
InTimeframe(row, start_time, end_time) ==
    row.timestamp >= start_time /\ row.timestamp <= end_time

\* MarketPairRepository.get_market_pairs_in_timeframe: the lists a
\* successful query can return
get_market_pairs_in_timeframe(table, start_time, end_time) ==
    OrderedListings({row \in table : InTimeframe(row, start_time, end_time)})

\* the intervals dict, in insertion order
Intervals(ct) ==
    << [name |-> "10 min", start |-> ct - 10],
       [name |-> "30 min", start |-> ct - 30],
       [name |-> "60 min", start |-> ct - 60],
       [name |-> "3 hours", start |-> ct - 180] >>

\* stable insertion into a sequence descending by start
RECURSIVE InsertByStartDesc(_, _)
InsertByStartDesc(s, x) ==
    IF s = <<>> THEN <<x>>
    ELSE IF s[Len(s)].start >= x.start
    THEN Append(s, x)
    ELSE Append(InsertByStartDesc(SubSeq(s, 1, Len(s) - 1), x), s[Len(s)])

RECURSIVE SortPrefixByStartDesc(_, _)
SortPrefixByStartDesc(s, n) ==
    IF n = 0 THEN <<>>
    ELSE InsertByStartDesc(SortPrefixByStartDesc(s, n - 1), s[n])

\* sorted(intervals.items(), key=lambda x: x[1], reverse=True)
SortedIntervals(ct) == SortPrefixByStartDesc(Intervals(ct), Len(Intervals(ct)))

MutKeepEmpty(d, key, value) == Append(d, [key |-> key, value |-> value])

\* if value: d[key] = value   (a dict in insertion order; the keys set by
\* generate_reports are fresh)
SetIfNonEmpty(d, key, value) ==
    IF value = <<>> THEN d ELSE Append(d, [key |-> key, value |-> value])

\* [data for data in market_data if data.exchange_name == exchange]
FilterByExchange(market_data, e) ==
    SelectSeq(market_data, LAMBDA data : data.exchange_name = e)

\* generate_reports up to the loop over the exchanges: the clock is read,
\* the locals are set and the distinct exchange names are queried.
GenerateReportsBegin ==
    /\ rpc = "idle"
    /\ rpc' = "exchanges"
    /\ current_time' = now
    /\ reports' = <<>>
    /\ processed_market_pairs' = {}
    /\ exchanges' = {row.exchange_name : row \in db}
    /\ slices' = <<>>
    /\ messages' = <<>>
    /\ UNCHANGED <<now, db, call, threshold, exchange, windows,
                   exchange_reports, sent, exception, ppc, deletion, fpc>>

\* for exchange in exchanges: a set is iterated in an order of its own
ExchangeLoop ==
    /\ rpc = "exchanges"
    /\ \E e \in exchanges :
          /\ exchange' = e
          /\ exchanges' = exchanges \ {e}
    /\ exchange_reports' = <<>>
    /\ windows' = SortedIntervals(current_time)
    /\ rpc' = "windows"
    /\ UNCHANGED <<now, db, call, threshold, current_time, reports,
                   processed_market_pairs, slices, messages, sent, exception,
                   ppc, deletion, fpc>>

\* An exception leaves generate_reports: its locals are gone, and nothing
\* in run_report_generation catches it, so the loop ends with it.
Unwind(exc, where) ==
    /\ rpc' = "crashed"
    /\ exception' = [type |-> exc, raised_by |-> where]
    /\ current_time' = 0
    /\ exchanges' = {}
    /\ exchange' = NoValue
    /\ windows' = <<>>
    /\ exchange_reports' = <<>>
    /\ reports' = <<>>
    /\ processed_market_pairs' = {}

\* One pass of the loop over the intervals: the query, the filter by
\* exchange, filter_significant_changes and the update of exchange_reports;
\* after the last interval, the update of reports.
WindowStep ==
    /\ rpc = "windows"
    /\ windows # <<>>
    /\ \E market_data \in get_market_pairs_in_timeframe(
                              db, Head(windows).start, current_time) :
         LET interval_name == Head(windows).name
             filtered_data == FilterByExchange(market_data, exchange)
             r == filter_significant_changes(
                      filtered_data, threshold, processed_market_pairs)
             er == SetIfNonEmpty(exchange_reports, interval_name, r.result)
         IN
         /\ slices' = Append(slices,
                [exchange |-> exchange, interval |-> interval_name,
                 market_data |-> filtered_data,
                 processed |-> processed_market_pairs,
                 result |-> r.result, processed_after |-> r.processed,
                 raised |-> r.raised])
         /\ IF r.raised
            THEN Unwind("ZeroDivisionError", "filter_significant_changes")
            ELSE
              /\ processed_market_pairs' = r.processed
              /\ windows' = Tail(windows)
              /\ exchange_reports' = er
              /\ IF Tail(windows) = <<>>
                 THEN /\ reports' = SetIfNonEmpty(reports, exchange, er)
                      /\ rpc' = "exchanges"
                 ELSE /\ reports' = reports
                      /\ rpc' = "windows"
              /\ UNCHANGED <<exception, current_time, exchanges, exchange>>
    /\ UNCHANGED <<now, db, call, threshold, messages, sent, ppc, deletion,
                   fpc>>

\* session.query(MarketPairData.exchange_name).distinct() raises: the
\* store fails before the loop over the exchanges
ExchangesQueryRaises ==
    /\ rpc = "idle"
    /\ Unwind("OperationalError", "distinct")
    /\ UNCHANGED <<now, db, call, threshold, slices, messages, sent, ppc,
                   deletion, fpc>>

\* The query of one (exchange, interval) slice raises: the store fails
SliceQueryRaises ==
    /\ rpc = "windows"
    /\ windows # <<>>
    /\ Unwind("OperationalError", "get_market_pairs_in_timeframe")
    /\ UNCHANGED <<now, db, call, threshold, slices, messages, sent, ppc,
                   deletion, fpc>>

\* return reports: the other locals end with the call
GenerateReportsReturn ==
    /\ rpc = "exchanges"
    /\ exchanges = {}
    /\ rpc' = "returned"
    /\ current_time' = 0
    /\ exchange' = NoValue
    /\ windows' = <<>>
    /\ exchange_reports' = <<>>
    /\ processed_market_pairs' = {}
    /\ UNCHANGED <<now, db, call, threshold, exchanges, reports, slices,
                   messages, sent, exception, ppc, deletion, fpc>>

\* The loop over the intervals of one exchange as a function: st holds
\* exchange_reports, processed_market_pairs and whether an exception left
\* the loop. Rows that tie in the order of the query are rows of different
\* exchanges of one pair, so every order of the query leaves the same
\* filtered_data.
RECURSIVE IntervalLoop(_, _, _, _, _, _)
IntervalLoop(table, ct, thr, e, ws, st) ==
    IF ws = <<>> \/ st.raised THEN st
    ELSE LET market_data ==
                 CHOOSE md \in get_market_pairs_in_timeframe(
                                   table, Head(ws).start, ct) : TRUE
             filtered_data == FilterByExchange(market_data, e)
             r == filter_significant_changes(filtered_data, thr, st.processed)
         IN IntervalLoop(table, ct, thr, e, Tail(ws),
                [exchange_reports |->
                     IF r.raised THEN st.exchange_reports
                     ELSE SetIfNonEmpty(st.exchange_reports,
                                        Head(ws).name, r.result),
                 processed |-> r.processed,
                 raised |-> r.raised])

\* The loop over the exchanges, iterated in the order given: st holds
\* reports, processed_market_pairs and whether an exception left the loop.
RECURSIVE ExchangesLoop(_, _, _, _, _)
ExchangesLoop(table, ct, thr, order, st) ==
    IF order = <<>> \/ st.raised THEN st
    ELSE LET x == IntervalLoop(table, ct, thr, Head(order),
                      SortedIntervals(ct),
                      [exchange_reports |-> <<>>,
                       processed |-> st.processed,
                       raised |-> FALSE])
         IN ExchangesLoop(table, ct, thr, Tail(order),
                [reports |-> IF x.raised THEN <<>>
                             ELSE SetIfNonEmpty(st.reports, Head(order),
                                                x.exchange_reports),
                 processed |-> x.processed,
                 raised |-> x.raised])

\* generate_reports when the set of exchanges is iterated in the order given
GenerateReportsInOrder(table, ct, thr, order) ==
    ExchangesLoop(table, ct, thr, order,
        [reports |-> <<>>, processed |-> {}, raised |-> FALSE])

---------------------------------------------------------------------------
(* market_reporter.py: format_telegram_messages, run_report_generation    *)

max_line_length == 30

\* len(market_pair): both pair names have eight characters
StrLen(market_pair) == 8

RECURSIVE Digits(_)
Digits(n) == IF n < 10 THEN 1 ELSE 1 + Digits(n \div 10)

\* f"{change_percentage:.2f}%": the sign, and the magnitude rounded to
\* hundredths of a percent (a digit 5 in the thousandths rounds up)
PercentText(cp) ==
    [minus |-> cp < 0, hundredths |-> (Abs(cp) * 100 + Scale \div 2) \div Scale]

\* len(change_percentage): sign, whole digits, the point, two decimals, %
PercentLen(text) ==
    (IF text.minus THEN 1 ELSE 0) + Digits(text.hundredths \div 100) + 4

MutInputOrder(changes) == changes

\* sorted(changes, key=lambda x: x['change_percentage'])
SortedChanges(changes) == SortByChange(changes)

\* the line appended for one change
ChangeLine(change) ==
    LET market_pair == change.market_pair[1]      \* .split(" ")[0]
        change_percentage == PercentText(change.change_percentage)
        total_length == StrLen(market_pair) + PercentLen(change_percentage)
        spaces_needed == max_line_length - total_length
    IN [kind |-> "change", href |-> change.market_url,
        market_pair |-> market_pair,
        spaces |-> IF spaces_needed > 0 THEN spaces_needed ELSE 0,
        change_percentage |-> change_percentage]

IntervalHeader(interval) ==
    [kind |-> "interval", interval |-> interval, dashes |-> max_line_length]

ExchangeHeader(e) == [kind |-> "exchange", exchange |-> e]

\* the parts appended for the intervals from index k on
RECURSIVE IntervalParts(_, _)
IntervalParts(intervals, k) ==
    IF k > Len(intervals) THEN <<>>
    ELSE LET sorted_changes == SortedChanges(intervals[k].value)
         IN <<IntervalHeader(intervals[k].key)>>
            \o [i \in 1..Len(sorted_changes) |-> ChangeLine(sorted_changes[i])]
            \o IntervalParts(intervals, k + 1)

\* messages: exchange -> the joined message_parts, in the order of reports
format_telegram_messages(rep) ==
    [n \in 1..Len(rep) |->
        [key |-> rep[n].key,
         value |-> <<ExchangeHeader(rep[n].key)>>
                   \o IntervalParts(rep[n].value, 1)]]

\* run_report_generation after generate_reports has returned: the messages
\* are formatted and each is handed to send_telegram_message, which logs a
\* failed delivery and raises nothing; then the loop sleeps and starts over.
FormatAndSend ==
    /\ rpc = "returned"
    /\ messages' = IF reports # <<>> THEN format_telegram_messages(reports)
                   ELSE <<>>
    /\ sent' = [n \in 1..Len(messages') |-> messages'[n].value]
    /\ rpc' = "idle"
    /\ slices' = <<>>
    /\ UNCHANGED <<now, db, call, threshold, current_time, exchanges,
                   exchange, windows, exchange_reports, reports,
                   processed_market_pairs, exception, ppc, deletion, fpc>>

---------------------------------------------------------------------------
(* old_data_remover.py: delete_old_records; start.py: remove_old_records   *)

\* hours=3 of the module's entry point
Hours == 3

MutOldOrEqual(row, threshold_date) == row.timestamp <= threshold_date

\* MarketPairData.timestamp < threshold_date
IsOld(row, threshold_date) == row.timestamp < threshold_date

NoDeletion == [status |-> "none", threshold_date |-> 0, rowcount |-> 0,
               in_a_row |-> FALSE, same_date |-> FALSE,
               inserted_since |-> FALSE]

\* One pass of remove_old_records inside the schedule: delete_old_records
\* executes the DELETE and commits.  deletion keeps what the call logged,
\* whether it follows another successful call with no insert between, and
\* whether that call had the same threshold_date.
DeleteOldRecords ==
    /\ ppc = "loop"
    /\ LET threshold_date == now - Hours * 60
           old == {row \in db : IsOld(row, threshold_date)}
       IN /\ db' = db \ old
          /\ deletion' = [status |-> "ok",
                          threshold_date |-> threshold_date,
                          rowcount |-> Cardinality(old),
                          in_a_row |-> deletion.status = "ok"
                                       /\ ~deletion.inserted_since,
                          same_date |-> deletion.status = "ok"
                              /\ deletion.threshold_date = threshold_date,
                          inserted_since |-> FALSE]
    /\ UNCHANGED <<now, call, rpc, threshold, current_time, exchanges,
                   exchange, windows, exchange_reports, reports,
                   processed_market_pairs, slices, messages, sent, exception,
                   ppc, fpc>>

\* session.execute or session.commit raises: rollback, the error is logged
\* and raised again; remove_old_records does not catch it and ends.
DeleteRaises ==
    /\ ppc = "loop"
    /\ ppc' = "crashed"
    /\ deletion' = [deletion EXCEPT !.status = "failed"]
    /\ UNCHANGED <<now, db, call, rpc, threshold, current_time, exchanges,
                   exchange, windows, exchange_reports, reports,
                   processed_market_pairs, slices, messages, sent, exception,
                   fpc>>

---------------------------------------------------------------------------
(* market_data_fetcher.py: process_market_pair_data                        *)

\* most rows the table holds while the loops run
MaxStored == 2

\* what the ingestion loop stores: one exchange, one pair
IngestListings == {<<"binance", "BTC/USDT">>}
IngestPrices == {100, 110}

\* One exchange's snapshot is fetched and save_market_pair_data_bulk
\* inserts it with the timestamp of the response.
Ingest ==
    /\ fpc = "loop"
    /\ Cardinality(db) < MaxStored
    /\ \E l \in IngestListings, price \in IngestPrices :
          db' = db \cup {MarketPairData(l[2], l[1], price, now)}
    /\ db' # db
    /\ deletion' = [deletion EXCEPT !.inserted_since = TRUE]
    /\ UNCHANGED <<now, call, rpc, threshold, current_time, exchanges,
                   exchange, windows, exchange_reports, reports,
                   processed_market_pairs, slices, messages, sent, exception,
                   ppc, fpc>>

\* the insert raises: rollback, the error is raised again and ends the loop
IngestRaises ==
    /\ fpc = "loop"
    /\ fpc' = "crashed"
    /\ UNCHANGED <<now, db, call, rpc, threshold, current_time, exchanges,
                   exchange, windows, exchange_reports, reports,
                   processed_market_pairs, slices, messages, sent, exception,
                   ppc, deletion>>

---------------------------------------------------------------------------
(* The clock: an hour passes (the loops sleep between their passes)        *)

MaxTicks == 5
TickMinutes == 60

Tick ==
    /\ now < MaxTicks * TickMinutes
    /\ now' = now + TickMinutes
    /\ UNCHANGED <<db, call, rpc, threshold, current_time, exchanges,
                   exchange, windows, exchange_reports, reports,
                   processed_market_pairs, slices, messages, sent, exception,
                   ppc, deletion, fpc>>

---------------------------------------------------------------------------
(* Positions of the loops that a specification leaves out                  *)

ReporterAt(pc) ==
    /\ rpc = pc
    /\ threshold = DefaultThreshold
    /\ current_time = 0
    /\ exchanges = {}
    /\ exchange = NoValue
    /\ windows = <<>>
    /\ exchange_reports = <<>>
    /\ reports = <<>>
    /\ processed_market_pairs = {}
    /\ slices = <<>>
    /\ messages = <<>>
    /\ sent = <<>>
    /\ exception = NoException

PrunerAt(pc) == ppc = pc /\ deletion = NoDeletion

---------------------------------------------------------------------------
(* SpecDetect: filter_significant_changes on its own, on every input       *)
(* within the bounds                                                       *)

Thresholds == {10, 20}

\* one exchange's rows in (market_pair, timestamp) order, as the caller
\* passes them: the timestamp of a row is its position
DetectorInputs ==
    LET Obs == PairNames \X Prices
        Raw == UNION {[1..n -> Obs] : n \in 0..MaxLen}
        Sorted(s) == \A i \in 1..(Len(s) - 1) :
                        PairRank(s[i][1]) <= PairRank(s[i + 1][1])
    IN {[i \in 1..Len(s) |-> MarketPairData(s[i][1], "binance", s[i][2], i)] :
          s \in {r \in Raw : Sorted(r)}}

InitDetect ==
    /\ now = 0
    /\ db = {}
    /\ \E md \in DetectorInputs, thr \in Thresholds, pr \in SUBSET PairNames :
          call = [market_data |-> md, threshold |-> thr, processed |-> pr,
                  done |-> FALSE, result |-> <<>>, processed_after |-> pr,
                  raised |-> FALSE]
    /\ ReporterAt("off")
    /\ PrunerAt("off")
    /\ fpc = "off"

Detect ==
    /\ ~call.done
    /\ LET r == filter_significant_changes(
                    call.market_data, call.threshold, call.processed)
       IN call' = [call EXCEPT !.done = TRUE, !.result = r.result,
                               !.processed_after = r.processed,
                               !.raised = r.raised]
    /\ UNCHANGED <<now, db, rpc, threshold, current_time, exchanges, exchange,
                   windows, exchange_reports, reports, processed_market_pairs,
                   slices, messages, sent, exception, ppc, deletion, fpc>>

NextDetect == Detect

SpecDetect == InitDetect /\ [][NextDetect]_vars

---------------------------------------------------------------------------
(* SpecReport: one generate_reports call on every table within the bounds  *)

\* the pairs each exchange lists: BTC/USDT is listed by both
Listings == {<<"binance", "BTC/USDT">>, <<"binance", "ETH/USDT">>,
             <<"bybit", "BTC/USDT">>}

ReportPrices == {100, 110}

\* ages in minutes of the rows at the time of the report: inside the
\* 10 min interval, on its edge, and inside the 3 hours interval only
Ages == {5, 10, 100}

\* a row with price 0, the first of its pair in every interval it is in
ZeroRows == {MarketPairData("ETH/USDT", "binance", 0, 0 - 100)}

RowUniverse ==
    {MarketPairData(l[2], l[1], price, 0 - age) :
        l \in Listings, price \in ReportPrices, age \in Ages} \cup ZeroRows

RECURSIVE SubsetsUpTo(_, _)
SubsetsUpTo(S, k) ==
    IF k = 0 THEN {{}}
    ELSE LET smaller == SubsetsUpTo(S, k - 1)
         IN smaller \cup {T \cup {x} : T \in smaller, x \in S}

\* the tables drawn: at most MaxRows rows, one row per pair, exchange and
\* timestamp (the detector meets the orders that tied rows can come in
\* under SpecDetect)
Tables ==
    {S \in SubsetsUpTo(RowUniverse, MaxRows) :
        \A a, b \in S :
            (a.market_pair = b.market_pair /\ a.exchange_name = b.exchange_name
                /\ a.timestamp = b.timestamp) => a = b}

NoCall == [market_data |-> <<>>, threshold |-> DefaultThreshold,
           processed |-> {}, done |-> TRUE, result |-> <<>>,
           processed_after |-> {}, raised |-> FALSE]

InitReport ==
    /\ now = 0
    /\ db \in Tables
    /\ call = NoCall
    /\ ReporterAt("idle")
    /\ PrunerAt("off")
    /\ fpc = "off"

NextReport ==
    \/ GenerateReportsBegin
    \/ ExchangeLoop
    \/ WindowStep
    \/ ExchangesQueryRaises
    \/ SliceQueryRaises
    \/ GenerateReportsReturn

SpecReport == InitReport /\ [][NextReport]_vars

---------------------------------------------------------------------------
(* SpecFormat: format_telegram_messages on reports whose lists come in     *)
(* every order                                                             *)

\* most changes in a report drawn
MaxChanges == 3

FormatIntervals == <<"10 min", "3 hours">>

\* a change of exchange e: the pair's price went from 100 to price
ChangeOf(e, p, price) ==
    SignificantChange(MarketPairData(p, e, price, 0), PriceChange(price, 100))

\* (exchange, index of the interval, pair, price) of each change, in the
\* order the lists hold them
TaggedChanges ==
    ExchangeNames \X (DOMAIN FormatIntervals) \X PairNames \X {90, 110}

ReportOf(tagged) ==
    LET entryOf(e) ==
            LET listOf(k) ==
                    LET sel == SelectSeq(tagged,
                                 LAMBDA t : t[1] = e /\ t[2] = k)
                    IN [i \in 1..Len(sel) |->
                           ChangeOf(e, sel[i][3], sel[i][4])]
                all == [k \in DOMAIN FormatIntervals |->
                           [key |-> FormatIntervals[k], value |-> listOf(k)]]
            IN [key |-> e,
                value |-> SelectSeq(all, LAMBDA d : d.value # <<>>)]
        both == <<entryOf("binance"), entryOf("bybit")>>
    IN SelectSeq(both, LAMBDA d : d.value # <<>>)

FormatInputs ==
    {ReportOf(t) : t \in UNION {[1..n -> TaggedChanges] : n \in 1..MaxChanges}}

InitFormat ==
    /\ now = 0
    /\ db = {}
    /\ call = NoCall
    /\ rpc = "returned"
    /\ threshold = DefaultThreshold
    /\ current_time = 0
    /\ exchanges = {}
    /\ exchange = NoValue
    /\ windows = <<>>
    /\ exchange_reports = <<>>
    /\ reports \in FormatInputs
    /\ processed_market_pairs = {}
    /\ slices = <<>>
    /\ messages = <<>>
    /\ sent = <<>>
    /\ exception = NoException
    /\ PrunerAt("off")
    /\ fpc = "off"

NextFormat == FormatAndSend

SpecFormat == InitFormat /\ [][NextFormat]_vars

---------------------------------------------------------------------------
(* SpecPrune: the pruning loop and the ingestion loop under the clock      *)

InitPrune ==
    /\ now = 0
    /\ db = {}
    /\ call = NoCall
    /\ ReporterAt("off")
    /\ PrunerAt("loop")
    /\ fpc = "loop"

NextPrune ==
    \/ Tick
    \/ Ingest
    \/ IngestRaises
    \/ DeleteOldRecords
    \/ DeleteRaises

SpecPrune == InitPrune /\ [][NextPrune]_vars

---------------------------------------------------------------------------
(* Spec: the three loops on one table, under one clock                     *)

Init ==
    /\ now = 0
    /\ db = {}
    /\ call = NoCall
    /\ ReporterAt("idle")
    /\ PrunerAt("loop")
    /\ fpc = "loop"

Next ==
    \/ Tick
    \/ Ingest
    \/ IngestRaises
    \/ GenerateReportsBegin
    \/ ExchangeLoop
    \/ WindowStep
    \/ ExchangesQueryRaises
    \/ SliceQueryRaises
    \/ GenerateReportsReturn
    \/ FormatAndSend
    \/ DeleteOldRecords
    \/ DeleteRaises

Spec == Init /\ [][Next]_vars

---------------------------------------------------------------------------
(* What the claims speak of, stated apart from the operators above         *)

Positions(md, p) == {i \in DOMAIN md : md[i].market_pair = p}

Least(S) == CHOOSE x \in S : \A y \in S : x <= y

\* the price of the first observation of p in md
Baseline(md, p) == md[Least(Positions(md, p))].price

\* |(price - b) / b * 100| >= thr for a baseline b > 0, in exact arithmetic
Moved(price, b, thr) == Abs(price - b) * 100 >= thr * b

\* the later observations of p that moved at least thr percent from the
\* first one
Crossings(md, p, thr) ==
    IF Positions(md, p) = {} \/ Baseline(md, p) <= 0 THEN {}
    ELSE {i \in Positions(md, p) :
            /\ i > Least(Positions(md, p))
            /\ Moved(md[i].price, Baseline(md, p), thr)}

\* the pairs a returned list reports, and where it reports p
ReportedPairs(result) == {result[k].market_pair[1] : k \in DOMAIN result}
ReportsOf(result, p) == {k \in DOMAIN result : result[k].market_pair[1] = p}

\* the call returned
Returned == call.done /\ ~call.raised

---------------------------------------------------------------------------
C4_FirstCrossing ==
    Returned =>
      \A p \in PairNames :
        LET cr == Crossings(call.market_data, p, call.threshold)
            mine == ReportsOf(call.result, p)
        IN /\ Cardinality(mine) <= 1
           /\ (p \notin call.processed /\ cr # {}) =>
                \E k \in mine :
                   /\ call.result[k].timestamp
                        = call.market_data[Least(cr)].timestamp
                   /\ call.result[k].price = call.market_data[Least(cr)].price

\* a pair is reported whose later observation moved further than the
\* reported one
C4_Witness ==
    /\ Returned
    /\ \E p \in PairNames \ call.processed :
         LET cr == Crossings(call.market_data, p, call.threshold)
             b == Baseline(call.market_data, p)
         IN /\ cr # {}
            /\ ReportsOf(call.result, p) # {}
            /\ \E j \in cr :
                  /\ j > Least(cr)
                  /\ Abs(call.market_data[j].price - b)
                       > Abs(call.market_data[Least(cr)].price - b)

(* C5: when the first observation of a pair has price 0, the call raises   *)
(* nothing, reports nothing for that pair, and reports the other pairs as  *)
(* it would without it.                                                    *)
C5_ZeroBaselineSkipped ==
    call.done =>
      \A p \in PairNames :
        (Positions(call.market_data, p) # {}
            /\ Baseline(call.market_data, p) = 0) =>
          /\ ~call.raised
          /\ p \notin ReportedPairs(call.result)
          /\ \A q \in PairNames \ (call.processed \cup {p}) :
                q \in ReportedPairs(call.result)
                  <=> Crossings(call.market_data, q, call.threshold) # {}

---------------------------------------------------------------------------
(* The report of the cycle underway: every list of changes recorded so     *)
(* far, each with its place                                                *)

\* <<n, k, i>>: change i of the k-th interval of the n-th exchange of
\* reports; n = 0 stands for exchange_reports, the exchange being iterated
Occurrences ==
    {<<n, k, i>> \in (DOMAIN reports) \X (1..4) \X (1..MaxRows + 1) :
        /\ k \in DOMAIN reports[n].value
        /\ i \in DOMAIN reports[n].value[k].value}
    \cup
    {<<n, k, i>> \in {0} \X (1..4) \X (1..MaxRows + 1) :
        /\ rpc = "windows"
        /\ k \in DOMAIN exchange_reports
        /\ i \in DOMAIN exchange_reports[k].value}

ChangeAt(o) ==
    IF o[1] = 0 THEN exchange_reports[o[2]].value[o[3]]
    ELSE reports[o[1]].value[o[2]].value[o[3]]

ReportedExchanges == {reports[n].key : n \in DOMAIN reports}

\* the pair p of slice i's exchange would be reported from slice i's data
\* if nothing had been reported before
Qualifies(i, p) == Crossings(slices[i].market_data, p, threshold) # {}

IntervalNames == <<"10 min", "30 min", "60 min", "3 hours">>

(* C1: within one generate_reports call no pair is reported twice: not in  *)
(* two intervals, not twice in one interval, and a pair that a slice has   *)
(* reported is reported by no later slice.                                 *)
C1_ReportedOnce ==
    /\ \A o1, o2 \in Occurrences :
          ChangeAt(o1).market_pair[1] = ChangeAt(o2).market_pair[1] => o1 = o2
    /\ \A i, j \in DOMAIN slices :
          i < j => ReportedPairs(slices[i].result)
                     \cap ReportedPairs(slices[j].result) = {}
    /\ \A i \in DOMAIN slices, p \in PairNames :
          Cardinality(ReportsOf(slices[i].result, p)) <= 1

\* a pair reported in one interval also qualifies in a later, looser
\* interval of the same exchange, which leaves it out
C1_Witness ==
    /\ rpc = "returned"
    /\ \E i, j \in DOMAIN slices, p \in PairNames :
          /\ i < j
          /\ slices[i].exchange = slices[j].exchange
          /\ p \in ReportedPairs(slices[i].result)
          /\ Qualifies(j, p)
          /\ slices[j].result = <<>>

(* C2: the intervals of each exchange are evaluated from the smallest      *)
(* lookback to the largest, and a pair of an exchange that qualifies in    *)
(* some interval is reported under the first interval in which it          *)
(* qualifies, and under no other.                                          *)
C2_TightestQualifyingWindow ==
    rpc = "returned" =>
      /\ \A i \in DOMAIN slices :
            slices[i].interval = IntervalNames[((i - 1) % 4) + 1]
      /\ \A i \in DOMAIN slices, p \in PairNames :
            Qualifies(i, p) =>
              \E j \in 1..i :
                 /\ slices[j].exchange = slices[i].exchange
                 /\ p \in ReportedPairs(slices[j].result)
                 /\ \A k \in 1..(j - 1) :
                       slices[k].exchange = slices[i].exchange
                          => ~Qualifies(k, p)
      /\ \A i \in DOMAIN slices :
            \A p \in ReportedPairs(slices[i].result) : Qualifies(i, p)

\* the orders a set of exchanges can be iterated in
IterationOrders(S) ==
    {o \in [1..Cardinality(S) -> S] :
        \A i, j \in DOMAIN o : o[i] = o[j] => i = j}

\* a report as the mapping it is: the order of insertion put aside
ReportContent(rep) ==
    UNION {{<<rep[n].key, rep[n].value[k].key, rep[n].value[k].value>> :
               k \in DOMAIN rep[n].value} : n \in DOMAIN rep}

(* C11: the report generate_reports returns does not depend on the order   *)
(* in which the set of exchanges is iterated: for the table, the time and  *)
(* the threshold of the call, every order of the exchanges returns the     *)
(* same mapping of exchanges to intervals to changes as the call did.      *)
C11_IterationOrderIrrelevant ==
    rpc = "returned" =>
      \A order \in IterationOrders({row.exchange_name : row \in db}) :
         LET other == GenerateReportsInOrder(db, now, threshold, order)
         IN /\ ~other.raised
            /\ ReportContent(other.reports) = ReportContent(reports)

(* C6: a failed query of one (exchange, interval) slice does not abort     *)
(* the cycle: generate_reports goes on and returns.                        *)
C6_SliceFailureTolerated ==
    ~(rpc = "crashed"
        /\ exception.raised_by = "get_market_pairs_in_timeframe")

(* C10: the report holds no empty entry: every interval recorded maps to   *)
(* a non-empty list and every exchange recorded has an interval; an        *)
(* exchange none of whose slices reported anything is absent; and a slice  *)
(* that is empty or holds one observation per pair yields an empty list,   *)
(* raises nothing and leaves the processed set as it was.                  *)
C10_NoEmptyEntries ==
    /\ \A n \in DOMAIN reports :
          /\ reports[n].value # <<>>
          /\ \A k \in DOMAIN reports[n].value :
                reports[n].value[k].value # <<>>
    /\ \A k \in DOMAIN exchange_reports : exchange_reports[k].value # <<>>
    /\ rpc = "returned" =>
          \A e \in ExchangeNames :
             e \in ReportedExchanges
               <=> \E i \in DOMAIN slices :
                      slices[i].exchange = e /\ slices[i].result # <<>>
    /\ \A i \in DOMAIN slices :
          (\A p \in PairNames :
              Cardinality(Positions(slices[i].market_data, p)) <= 1)
            => /\ ~slices[i].raised
               /\ slices[i].result = <<>>
               /\ slices[i].processed_after = slices[i].processed

\* a report is returned that holds one exchange and leaves out another
\* exchange of the table, after an empty slice and a slice with a single
\* observation
C10_Witness ==
    /\ rpc = "returned"
    /\ reports # <<>>
    /\ \E row \in db : row.exchange_name \notin ReportedExchanges
    /\ \E i \in DOMAIN slices : slices[i].market_data = <<>>
    /\ \E i \in DOMAIN slices : Len(slices[i].market_data) = 1

---------------------------------------------------------------------------
(* C7 (as amended): a successful delete_old_records call removes exactly   *)
(* the rows whose timestamp is strictly earlier than now - hours and       *)
(* leaves every other row as it was (a row at the cutoff stays); a second  *)
(* call in a row with no insert between removes exactly the rows between   *)
(* the first call's cutoff (included) and its own (excluded), which is     *)
(* nothing when both calls have the same cutoff.                           *)
C7_PrunesOlderThanCutoff ==
    [][DeleteOldRecords =>
         LET cutoff == now - Hours * 60
             second == deletion.status = "ok" /\ ~deletion.inserted_since
         IN /\ db' = {row \in db : row.timestamp >= cutoff}
            /\ deletion'.rowcount = Cardinality(db \ db')
            /\ second =>
                 db \ db' = {row \in db :
                               /\ deletion.threshold_date <= row.timestamp
                               /\ row.timestamp < cutoff}
            /\ (second /\ deletion.threshold_date = cutoff) =>
                 deletion'.rowcount = 0]_vars

\* a second call in a row has removed rows and kept the row at its cutoff
C7_Witness ==
    /\ deletion.status = "ok"
    /\ deletion.in_a_row
    /\ deletion.rowcount > 0
    /\ \E row \in db : row.timestamp = deletion.threshold_date

(* C7 as claimed: ... and a second call in a row with no new data          *)
(* inserted deletes 0 observations.                                        *)
C7_SecondCallDeletesNothing ==
    [][DeleteOldRecords =>
         /\ db' = {row \in db : row.timestamp >= now - Hours * 60}
         /\ (deletion.status = "ok" /\ ~deletion.inserted_since) =>
              deletion'.rowcount = 0]_vars

(* C8: a store failure inside a cycle of the reporting loop or of the      *)
(* pruning loop does not end the loop; the loop stays able to run its      *)
(* next cycle.                                                             *)
C8_LoopsSurviveStoreFailure ==
    /\ ppc # "crashed"
    /\ ~(rpc = "crashed" /\ exception.type = "OperationalError")

---------------------------------------------------------------------------
(* The text of a message: where the block of each interval begins          *)

\* index in the message of the header of the k-th interval
RECURSIVE BlockStart(_, _)
BlockStart(intervals, k) ==
    IF k = 1 THEN 2
    ELSE BlockStart(intervals, k - 1) + 1 + Len(intervals[k - 1].value)

Orderings(n) ==
    {f \in [1..n -> 1..n] : \A i, j \in 1..n : f[i] = f[j] => i = j}

\* the percentage a line shows, in hundredths
Shown(line) ==
    IF line.change_percentage.minus THEN 0 - line.change_percentage.hundredths
    ELSE line.change_percentage.hundredths

(* C9: in each message the blocks of the intervals come in the order of    *)
(* the report, and the lines of a block are the changes of that interval   *)
(* in ascending order of signed change_percentage, whatever order the      *)
(* report lists them in.                                                   *)
C9_AscendingLines ==
    messages # <<>> =>
      /\ Len(messages) = Len(reports)
      /\ \A n \in DOMAIN messages :
           LET msg == messages[n].value
               intervals == reports[n].value
           IN /\ messages[n].key = reports[n].key
              /\ msg[1] = ExchangeHeader(reports[n].key)
              /\ Len(msg) = BlockStart(intervals, Len(intervals) + 1) - 1
              /\ \A k \in DOMAIN intervals :
                   LET at == BlockStart(intervals, k)
                       changes == intervals[k].value
                   IN /\ msg[at] = IntervalHeader(intervals[k].key)
                      /\ \E f \in Orderings(Len(changes)) :
                           /\ \A i \in DOMAIN changes :
                                msg[at + i] = ChangeLine(changes[f[i]])
                           /\ \A i \in 1..(Len(changes) - 1) :
                                changes[f[i]].change_percentage
                                  <= changes[f[i + 1]].change_percentage
                      /\ \A i \in 1..(Len(changes) - 1) :
                           Shown(msg[at + i]) <= Shown(msg[at + i + 1])

\* a message was formatted from a report with two intervals for one
\* exchange and a list that is not in ascending order
C9_Witness ==
    /\ messages # <<>>
    /\ \E n \in DOMAIN reports :
          /\ Len(reports[n].value) = 2
          /\ \E k \in DOMAIN reports[n].value :
               LET changes == reports[n].value[k].value
               IN \E i \in 1..(Len(changes) - 1) :
                     changes[i].change_percentage
                       > changes[i + 1].change_percentage

=============================================================================
